---------------------------- MODULE Spec2Model ----------------------------
(***************************************************************************)
(* Model of the swagger_processor crate: path canonicalisation             *)
(* (utils.rs), the split stage and the merge stage of                      *)
(* APIDefinitionProcessor (processor.rs).                                  *)
(*                                                                         *)
(* Strings that the code inspects or that serve as map keys (routes,       *)
(* method names, top-level keys) are sequences of one-character strings.   *)
(* Opaque scalars (operation bodies, top-level values) are TLA+ strings.   *)
(***************************************************************************)
EXTENDS Integers, Sequences, FiniteSets, TLC

VARIABLES
    pc,              \* position of the running call
    np_in,           \* normalize_path: the argument
    np_out,          \* normalize_path: the returned String
    np_root,         \* get_root_path(np_out)
    api_definition,  \* the document load_definition yields
    path_groups,     \* split: HashMap<String, PathGroup>
    split_results,   \* split: what each group's process_path_group returned
    defs,            \* the Vec<APIDef> split returns and merge receives
    merge_groups,    \* merge: HashMap<String, Vec<APIDef>> of path fragments
    verbs,           \* merge: the operation fragments, in input order
    merge_pos,       \* merge_path_group: fragments of the group consumed so far
    merged_yaml,     \* merge_path_group: the local Option<Value>
    merge_results,   \* merge: what each group's closure returned
    final_definitions, \* the Vec<APIDef> merge returns
    repeated         \* merge runs on the list an earlier call of merge returned

(***************************************************************************)
(* Bounds                                                                  *)
(***************************************************************************)
MaxTokens == 5       \* raw strings are built from at most this many pieces

(***************************************************************************)
(* Characters and small string helpers                                     *)
(***************************************************************************)
Slash == "/"

Digits == {"0", "1", "2", "3", "4", "5", "6", "7", "8", "9"}

Range(s) == {s[i] : i \in DOMAIN s}

\* str::trim_start_matches('/')
RECURSIVE TrimStartSlash(_)
TrimStartSlash(s) ==
    IF s = <<>> THEN <<>>
    ELSE IF Head(s) = Slash THEN TrimStartSlash(Tail(s))
    ELSE s

\* str::split('/'): the pieces between the separators, empty pieces included
RECURSIVE SplitSlashFrom(_, _, _)
SplitSlashFrom(s, cur, acc) ==
    IF s = <<>> THEN Append(acc, cur)
    ELSE IF Head(s) = Slash THEN SplitSlashFrom(Tail(s), <<>>, Append(acc, cur))
    ELSE SplitSlashFrom(Tail(s), Append(cur, Head(s)), acc)

SplitSlash(s) == SplitSlashFrom(s, <<>>, <<>>)

\* variant: the split pieces without the is_empty filter
KeepEmptyParts(parts) == parts

\* Iterator::filter(|p| !p.is_empty())
FilterNonEmpty(parts) == SelectSeq(parts, LAMBDA p : p # <<>>)

\* [&str]::join("/")
RECURSIVE JoinSlash(_)
JoinSlash(parts) ==
    IF parts = <<>> THEN <<>>
    ELSE IF Len(parts) = 1 THEN parts[1]
    ELSE parts[1] \o <<Slash>> \o JoinSlash(Tail(parts))

\* variant: "api" compared without regard to case
ApiAnyCase(part) ==
    /\ Len(part) = 3
    /\ part[1] \in {"a", "A"}
    /\ part[2] \in {"p", "P"}
    /\ part[3] \in {"i", "I"}

\* variant: parts[start_index].starts_with("api")
ApiPrefixOnly(part) == Len(part) >= 3 /\ SubSeq(part, 1, 3) = <<"a", "p", "i">>

\* parts[start_index] == "api"
IsApiSegment(part) == part = <<"a", "p", "i">>

\* variant: part.len() > 1 && part.starts_with('v'), without the digit test
VersionNoDigitCheck(part) ==
    /\ Len(part) > 1
    /\ part[1] = "v"

\* part.len() > 1 && part.starts_with('v') && part[1..].chars().all(is_ascii_digit)
IsVersionSegment(part) ==
    /\ Len(part) > 1
    /\ part[1] = "v"
    /\ \A i \in 2..Len(part) : part[i] \in Digits

\* variant: normalize_path skipping a second version segment as well
NormalizePathTwoVersions(path) ==
    LET trimmed == TrimStartSlash(path)
        parts   == FilterNonEmpty(SplitSlash(trimmed))
        n       == Len(parts)
        i0      == 0
        i1      == IF i0 < n /\ IsApiSegment(parts[i0 + 1]) THEN i0 + 1 ELSE i0
        i2      == IF i1 < n /\ IsVersionSegment(parts[i1 + 1]) THEN i1 + 1 ELSE i1
        i3      == IF i1 < i2 /\ i2 < n /\ IsVersionSegment(parts[i2 + 1]) THEN i2 + 1 ELSE i2
    IN  IF parts = <<>> THEN <<Slash>>
        ELSE IF i3 < n THEN <<Slash>> \o JoinSlash(SubSeq(parts, i3 + 1, n))
        ELSE <<Slash>>

\* utils.rs normalize_path; indexes are 0-based in the code, 1-based here
NormalizePath(path) ==
    LET trimmed == TrimStartSlash(path)
        parts   == FilterNonEmpty(SplitSlash(trimmed))
        n       == Len(parts)
        i0      == 0
        i1      == IF i0 < n /\ IsApiSegment(parts[i0 + 1]) THEN i0 + 1 ELSE i0
        i2      == IF i1 < n /\ IsVersionSegment(parts[i1 + 1]) THEN i1 + 1 ELSE i1
    IN  IF parts = <<>> THEN <<Slash>>
        ELSE IF i2 < n THEN <<Slash>> \o JoinSlash(SubSeq(parts, i2 + 1, n))
        ELSE <<Slash>>

\* str::find('/'): 1-based position of the first '/', 0 for None
RECURSIVE FindSlashFrom(_, _)
FindSlashFrom(s, i) ==
    IF i > Len(s) THEN 0
    ELSE IF s[i] = Slash THEN i
    ELSE FindSlashFrom(s, i + 1)

FindSlash(s) == FindSlashFrom(s, 1)

\* variant: get_root_path without trim_start_matches('/')
GetRootPathNoTrim(path) ==
    LET trimmed == path
        pos     == FindSlash(trimmed)
    IN  IF pos # 0
        THEN LET first_part == SubSeq(trimmed, 1, pos - 1)
             IN  IF first_part # <<>> THEN <<Slash>> \o first_part ELSE <<Slash>>
        ELSE IF trimmed # <<>> THEN <<Slash>> \o trimmed
        ELSE <<Slash>>

\* utils.rs get_root_path
GetRootPath(path) ==
    LET trimmed == TrimStartSlash(path)
        pos     == FindSlash(trimmed)
    IN  IF pos # 0
        THEN LET first_part == SubSeq(trimmed, 1, pos - 1)
             IN  IF first_part # <<>> THEN <<Slash>> \o first_part ELSE <<Slash>>
        ELSE IF trimmed # <<>> THEN <<Slash>> \o trimmed
        ELSE <<Slash>>

(***************************************************************************)
(* Document values (serde_json::Value) of the shape the processor looks at.*)
(*   document   [top |-> map key -> scalar, paths |-> PathsValue]          *)
(*   PathsValue [t |-> "absent" | "scalar" | "obj", r |-> map route -> RD] *)
(*   RD         [t |-> "scalar" | "obj", s |-> scalar, m |-> map method -> body] *)
(* Keys are character sequences, scalars and operation bodies are opaque   *)
(* strings.  Map equality ignores key order, as serde_json::Map's does.    *)
(***************************************************************************)
EmptyMap == [x \in {} |-> x]

PathsKey == <<"p", "a", "t", "h", "s">>
OpenapiKey == <<"o", "p", "e", "n", "a", "p", "i">>
InfoKey == <<"i", "n", "f", "o">>

ObjData(m) == [t |-> "obj", s |-> "", m |-> m]
ScalarData(s) == [t |-> "scalar", s |-> s, m |-> EmptyMap]

PathsAbsent == [t |-> "absent", s |-> "", r |-> EmptyMap]
PathsScalar(s) == [t |-> "scalar", s |-> s, r |-> EmptyMap]
PathsObj(r) == [t |-> "obj", s |-> "", r |-> r]

\* Map::insert / a one-entry map
MapInsert(f, k, v) == [x \in DOMAIN f \cup {k} |-> IF x = k THEN v ELSE f[x]]
OneEntry(k, v) == [x \in {k} |-> v]

\* the keys of a map in the order an iteration visits them
SetToSeq(S) == CHOOSE q \in [1..Cardinality(S) -> S] : Range(q) = S

(***************************************************************************)
(* YAML text.  A text is a sequence of lines [d, k, tag, s]: d the         *)
(* indentation depth, k the key, and the rest of the line is               *)
(*   tag "str"      a scalar s                                             *)
(*   tag "open"     nothing: a block mapping follows on deeper lines       *)
(*   tag "emptymap" the flow mapping {}                                    *)
(*   tag "bad"      text that is not YAML (an unterminated flow sequence)  *)
(***************************************************************************)
Line(d, k, tag, s) == [d |-> d, k |-> k, tag |-> tag, s |-> s]

\* serde_yaml::to_string of a method map below a route
RenderMethods(m) ==
    LET ks == SetToSeq(DOMAIN m)
    IN  [i \in 1..Len(ks) |-> Line(2, ks[i], "str", m[ks[i]])]

\* serde_yaml::to_string of one route entry
RenderRoute(route, data) ==
    IF data.t = "scalar" THEN << Line(1, route, "str", data.s) >>
    ELSE IF DOMAIN data.m = {} THEN << Line(1, route, "emptymap", "") >>
    ELSE << Line(1, route, "open", "") >> \o RenderMethods(data.m)

RECURSIVE RenderRoutes(_, _)
RenderRoutes(r, ks) ==
    IF ks = <<>> THEN <<>>
    ELSE RenderRoute(Head(ks), r[Head(ks)]) \o RenderRoutes(r, Tail(ks))

\* serde_yaml::to_string of the "paths" member
RenderPaths(pv) ==
    IF pv.t = "absent" THEN <<>>
    ELSE IF pv.t = "scalar" THEN << Line(0, PathsKey, "str", pv.s) >>
    ELSE IF DOMAIN pv.r = {} THEN << Line(0, PathsKey, "emptymap", "") >>
    ELSE << Line(0, PathsKey, "open", "") >> \o RenderRoutes(pv.r, SetToSeq(DOMAIN pv.r))

\* serde_yaml::to_string(&yaml_value)
RenderYaml(v) ==
    LET ks == SetToSeq(DOMAIN v.top)
    IN  [i \in 1..Len(ks) |-> Line(0, ks[i], "str", v.top[ks[i]])] \o RenderPaths(v.paths)

\* the lines of the block that line i opens: i+1 .. the line before the next
\* line that is not deeper than line i
RECURSIVE BlockEnd(_, _, _)
BlockEnd(text, i, j) ==
    IF j > Len(text) \/ text[j].d <= text[i].d THEN j - 1
    ELSE BlockEnd(text, i, j + 1)

\* the lines directly below line i (i = 0: the top-level lines)
Children(text, i) ==
    LET lo == i + 1
        hi == IF i = 0 THEN Len(text) ELSE BlockEnd(text, i, i + 1)
        dd == IF i = 0 THEN 0 ELSE text[i].d + 1
    IN  { j \in lo..hi : text[j].d = dd }

\* a mapping's entries: a later duplicate of a key replaces the earlier one
LastWithKey(text, js, k) == CHOOSE j \in js : text[j].k = k /\ \A h \in js : text[h].k = k => h <= j

\* indentation is well formed: the text starts at depth 0 and a line is one
\* level deeper than the line before it only when that line opens a block
WellIndented(text) ==
    /\ text # <<>> => text[1].d = 0
    /\ \A i \in 2..Len(text) :
          /\ text[i].d <= text[i - 1].d + 1
          /\ text[i].d = text[i - 1].d + 1 => text[i - 1].tag = "open"

ParseMethods(text, i) ==
    LET js == Children(text, i)
        ks == { text[j].k : j \in js }
    IN  [k \in ks |-> text[LastWithKey(text, js, k)].s]

ParseRoute(text, i) ==
    IF text[i].tag = "str" THEN ScalarData(text[i].s)
    ELSE IF text[i].tag = "emptymap" THEN ObjData(EmptyMap)
    ELSE IF Children(text, i) = {} THEN ScalarData("null")
    ELSE ObjData(ParseMethods(text, i))

ParsePaths(text, i) ==
    IF text[i].tag = "str" THEN PathsScalar(text[i].s)
    ELSE IF text[i].tag = "emptymap" THEN PathsObj(EmptyMap)
    ELSE IF Children(text, i) = {} THEN PathsScalar("null")
    ELSE LET js == Children(text, i)
             ks == { text[j].k : j \in js }
         IN  PathsObj([k \in ks |-> ParseRoute(text, LastWithKey(text, js, k))])

\* variant: a parser that takes a line that is not YAML as a scalar
ParseYamlAcceptingAll(text) ==
    IF (\E i \in DOMAIN text : text[i].d > 2) \/ ~WellIndented(text)
    THEN [ok |-> FALSE, val |-> [top |-> EmptyMap, paths |-> PathsAbsent]]
    ELSE LET js == Children(text, 0)
             ks == { text[j].k : j \in js }
             tk == ks \ {PathsKey}
         IN  [ok |-> TRUE,
              val |-> [top |-> [k \in tk |-> text[LastWithKey(text, js, k)].s],
                       paths |-> IF PathsKey \in ks
                                 THEN ParsePaths(text, LastWithKey(text, js, PathsKey))
                                 ELSE PathsAbsent]]

\* serde_yaml::from_str::<Value>: [ok, val]
ParseYaml(text) ==
    IF (\E i \in DOMAIN text : text[i].tag = "bad" \/ text[i].d > 2) \/ ~WellIndented(text)
    THEN [ok |-> FALSE, val |-> [top |-> EmptyMap, paths |-> PathsAbsent]]
    ELSE LET js == Children(text, 0)
             ks == { text[j].k : j \in js }
             tk == ks \ {PathsKey}
         IN  [ok |-> TRUE,
              val |-> [top |-> [k \in tk |-> text[LastWithKey(text, js, k)].s],
                       paths |-> IF PathsKey \in ks
                                 THEN ParsePaths(text, LastWithKey(text, js, PathsKey))
                                 ELSE PathsAbsent]]

(***************************************************************************)
(* Fragments (types.rs APIDef).  A path fragment has the fields path and   *)
(* yaml; verb and root_path are empty for it.                              *)
(***************************************************************************)
APIPath(path, yaml) ==
    [kind |-> "path", verb |-> <<>>, path |-> path, root_path |-> <<>>, yaml |-> yaml]

APIVerb(verb, path, root_path, yaml) ==
    [kind |-> "verb", verb |-> verb, path |-> path, root_path |-> root_path, yaml |-> yaml]

\* char::to_uppercase on the letters that occur in method names
UpperChar(c) ==
    CASE c = "g" -> "G" [] c = "e" -> "E" [] c = "t" -> "T" [] c = "p" -> "P"
      [] c = "o" -> "O" [] c = "s" -> "S" [] c = "d" -> "D" [] c = "l" -> "L"
      [] OTHER -> c

\* variant: the method key stored as written
KeepCase(s) == s

\* str::to_uppercase
ToUppercase(s) == [i \in DOMAIN s |-> UpperChar(s[i])]

(***************************************************************************)
(* Split stage                                                             *)
(***************************************************************************)
\* api_definition.get("paths").and_then(|p| p.as_object()) is Some
HasPathsObject(doc) == doc.paths_t = "obj"

\* variant: a later raw route is put in front of the earlier ones of its group
RECURSIVE GroupPathsPrepend(_, _)
GroupPathsPrepend(entries, groups) ==
    IF entries = <<>> THEN groups
    ELSE LET e  == Head(entries)
             np == NormalizePath(e.route)
             g  == IF np \in DOMAIN groups THEN groups[np] ELSE <<>>
         IN  GroupPathsPrepend(Tail(entries), MapInsert(groups, np, <<e>> \o g))

\* variant: the group map always holds a group for "/"
RECURSIVE GroupPathsWithRoot(_, _)
GroupPathsWithRoot(entries, groups) ==
    IF entries = <<>>
    THEN IF <<Slash>> \in DOMAIN groups THEN groups ELSE MapInsert(groups, <<Slash>>, <<>>)
    ELSE LET e  == Head(entries)
             np == NormalizePath(e.route)
             g  == IF np \in DOMAIN groups THEN groups[np] ELSE <<>>
         IN  GroupPathsWithRoot(Tail(entries), MapInsert(groups, np, Append(g, e)))

\* processor.rs 275-281: entries are pushed in the iteration order of "paths"
RECURSIVE GroupPaths(_, _)
GroupPaths(entries, groups) ==
    IF entries = <<>> THEN groups
    ELSE LET e  == Head(entries)
             np == NormalizePath(e.route)
             g  == IF np \in DOMAIN groups THEN groups[np] ELSE <<>>
         IN  GroupPaths(Tail(entries), MapInsert(groups, np, Append(g, e)))

\* variant: insert without the contains_key test, a later route overwrites
MergeVerbsLastWins(merged, path_obj) ==
    [v \in DOMAIN merged \cup DOMAIN path_obj |->
        IF v \in DOMAIN path_obj THEN path_obj[v] ELSE merged[v]]

\* merge_path_data, the loop of lines 399-408: a verb is inserted only when
\* merged_data does not contain it yet
MergeVerbs(merged, path_obj) ==
    [v \in DOMAIN merged \cup DOMAIN path_obj |->
        IF v \in DOMAIN merged THEN merged[v] ELSE path_obj[v]]

RECURSIVE MergeEntries(_, _)
MergeEntries(entries, merged) ==
    IF entries = <<>> THEN merged
    ELSE LET d == Head(entries).data
         IN  MergeEntries(Tail(entries),
                          IF d.t = "obj" THEN MergeVerbs(merged, d.m) ELSE merged)

\* merge_path_data
MergePathData(path_entries) ==
    IF Len(path_entries) = 1 THEN path_entries[1].data
    ELSE ObjData(MergeEntries(path_entries, EmptyMap))

\* the top-level members of the document other than "paths"
Skeleton(doc) == doc.top

\* variant: create_path_yaml without the copy of the non-paths members
CreatePathYamlPathsOnly(doc, path, path_data) ==
    RenderYaml([top |-> EmptyMap, paths |-> PathsObj(OneEntry(path, path_data))])

\* create_path_yaml
CreatePathYaml(doc, path, path_data) ==
    RenderYaml([top |-> Skeleton(doc), paths |-> PathsObj(OneEntry(path, path_data))])

\* variant: create_verb_yaml inserting the uppercased verb as the key
CreateVerbYamlUppercased(doc, path, verb, verb_data) ==
    RenderYaml([top |-> Skeleton(doc),
                paths |-> PathsObj(OneEntry(path, ObjData(OneEntry(ToUppercase(verb), verb_data))))])

\* create_verb_yaml
CreateVerbYaml(doc, path, verb, verb_data) ==
    RenderYaml([top |-> Skeleton(doc),
                paths |-> PathsObj(OneEntry(path, ObjData(OneEntry(verb, verb_data))))])

\* variant: without the as_object test of line 319, a non-object value gives
\* one operation fragment of its own
VerbDefinitionsOfAnyValue(doc, normalized_path, merged) ==
    IF merged.t # "obj"
    THEN << APIVerb(<<>>, normalized_path, GetRootPath(normalized_path),
                    CreatePathYaml(doc, normalized_path, merged)) >>
    ELSE LET vs == SetToSeq(DOMAIN merged.m)
         IN  [i \in 1..Len(vs) |->
                 APIVerb(ToUppercase(vs[i]), normalized_path, GetRootPath(normalized_path),
                         CreateVerbYaml(doc, normalized_path, vs[i], merged.m[vs[i]]))]

\* process_path_group, lines 318-330: one APIVerb per entry of the merged object
VerbDefinitions(doc, normalized_path, merged) ==
    IF merged.t # "obj" THEN <<>>
    ELSE LET vs == SetToSeq(DOMAIN merged.m)
         IN  [i \in 1..Len(vs) |->
                 APIVerb(ToUppercase(vs[i]), normalized_path, GetRootPath(normalized_path),
                         CreateVerbYaml(doc, normalized_path, vs[i], merged.m[vs[i]]))]

\* variant: the APIPath of lines 313-316 is not pushed
ProcessPathGroupNoPath(doc, normalized_path, path_entries) ==
    VerbDefinitions(doc, normalized_path, MergePathData(path_entries))

\* process_path_group
ProcessPathGroup(doc, normalized_path, path_entries) ==
    LET merged == MergePathData(path_entries)
    IN  << APIPath(normalized_path, CreatePathYaml(doc, normalized_path, merged)) >>
        \o VerbDefinitions(doc, normalized_path, merged)

\* the orders in which a HashMap with key set S can be iterated
Orders(S) == { q \in [1..Cardinality(S) -> S] : Range(q) = S }

\* results?.into_iter().flatten().collect()
RECURSIVE FlattenIn(_, _)
FlattenIn(res, order) ==
    IF order = <<>> THEN <<>>
    ELSE res[Head(order)] \o FlattenIn(res, Tail(order))

(***************************************************************************)
(* Merge stage                                                             *)
(***************************************************************************)
\* variant: of the operation fragments with one (path, verb) only the last is kept
VerbsOfLastPerKey(list) ==
    LET vs   == SelectSeq(list, LAMBDA d : d.kind # "path")
        keep == { i \in DOMAIN vs :
                    \A j \in DOMAIN vs :
                        (vs[j].path = vs[i].path /\ vs[j].verb = vs[i].verb) => j <= i }
    IN  [n \in 1..Cardinality(keep) |->
            vs[CHOOSE i \in keep : Cardinality({ h \in keep : h < i }) = n - 1]]

\* merge_definitions_parallel 418-420: partition keeps the input order
PathsOf(list) == SelectSeq(list, LAMBDA d : d.kind = "path")
VerbsOf(list) == SelectSeq(list, LAMBDA d : d.kind # "path")

\* variant: group by the fragment's path itself
GroupKeyIsPath(d) == d.path

\* variant: the key is the first segment of a path of two or more segments,
\* and "/" for a shorter path
GroupKeyParent(d) ==
    LET parts == FilterNonEmpty(SplitSlash(d.path))
    IN  IF Len(parts) >= 2 THEN <<Slash>> \o parts[1] ELSE <<Slash>>

\* merge_definitions_parallel 426: get_root_path(&path_data.path)
GroupKey(d) == GetRootPath(d.path)

RECURSIVE GroupByRoot(_, _)
GroupByRoot(paths, groups) ==
    IF paths = <<>> THEN groups
    ELSE LET d == Head(paths)
             b == GroupKey(d)
             g == IF b \in DOMAIN groups THEN groups[b] ELSE <<>>
         IN  GroupByRoot(Tail(paths), MapInsert(groups, b, Append(g, d)))

\* variant: insert instead of entry().or_insert_with, a later fragment overwrites
MergeRoutesLastWins(merged, path_yaml) ==
    IF path_yaml.paths.t = "obj" /\ merged.paths.t = "obj"
    THEN [merged EXCEPT !.paths.r =
            [k \in DOMAIN merged.paths.r \cup DOMAIN path_yaml.paths.r |->
                IF k \in DOMAIN path_yaml.paths.r THEN path_yaml.paths.r[k]
                ELSE merged.paths.r[k]]]
    ELSE merged

\* merge_path_group 474-487: the first parsed document is taken whole; of a
\* later one only the route keys its "paths" adds are taken
MergeRoutes(merged, path_yaml) ==
    IF path_yaml.paths.t = "obj" /\ merged.paths.t = "obj"
    THEN [merged EXCEPT !.paths.r =
            [k \in DOMAIN merged.paths.r \cup DOMAIN path_yaml.paths.r |->
                IF k \in DOMAIN merged.paths.r THEN merged.paths.r[k]
                ELSE path_yaml.paths.r[k]]]
    ELSE merged

NoValue == [top |-> EmptyMap, paths |-> PathsAbsent]
None == [some |-> FALSE, val |-> NoValue]
Some(v) == [some |-> TRUE, val |-> v]

NoDef == APIPath(<<>>, <<>>)
Pending == [st |-> "pending", def |-> NoDef]
Ok(d) == [st |-> "ok", def |-> d]
Err == [st |-> "err", def |-> NoDef]

\* variant: the group is consumed from its end
NextFromBack(group, pos) == group[Len(group) - pos]

\* the fragment of the group the loop of merge_path_group takes next
NextToMerge(group, pos) == group[pos + 1]

(***************************************************************************)
(* Raw strings handed to normalize_path: every concatenation of at most    *)
(* MaxTokens pieces, and the strings of the unit tests of utils.rs.        *)
(***************************************************************************)
Pieces == { <<"/">>, <<"a", "p", "i">>, <<"v">>, <<"1">>, <<"x">> }

RECURSIVE Flatten(_)
Flatten(ss) == IF ss = <<>> THEN <<>> ELSE Head(ss) \o Flatten(Tail(ss))

PieceStrings == UNION { { Flatten(t) : t \in [1..n -> Pieces] } : n \in 0..MaxTokens }

TestPaths == {
    <<"/","a","p","i","/","v","1","/","u","s","e","r","s">>,
    <<"/","v","1","0","/","u","s","e","r","s">>,
    <<"/","/","a","p","i","/","/","v","1","/","/","u","s","e","r","s">>,
    <<"/","u","s","e","r","s","/">>,
    <<"/","v","1","a","/","u","s","e","r","s">>,
    <<"/","v","e","r","s","i","o","n","/","u","s","e","r","s">>,
    <<"/","v","0","1","/","u","s","e","r","s">>,
    <<"/","A","P","I","/","V","1","/","u","s","e","r","s">>,
    <<"/","A","p","i","/","v","1","/","u","s","e","r","s">>,
    <<"/","a","p","i","/","v","1","/","u","s","e","r","s","/","1","2","3","/","p","o","s","t","s">>,
    <<"/","a","p","i","/","u","s","e","r","s","/","v","1">>,
    <<"/","v","1","/","v","2","/","u","s","e","r","s">> }

RawStrings == PieceStrings \cup TestPaths

(***************************************************************************)
(* Documents handed to the processor.  Every raw route carries its own     *)
(* operation body, so a fragment shows which raw route it was taken from.  *)
(***************************************************************************)
MaxRoutes == 2       \* raw routes in the "paths" of a generated document

Get == <<"g", "e", "t">>
GetUpper == <<"G", "E", "T">>
Post == <<"p", "o", "s", "t">>
Delete == <<"d", "e", "l", "e", "t", "e">>

RouteApiV1U == <<"/", "a", "p", "i", "/", "v", "1", "/", "u">>
RouteV2U == <<"/", "v", "2", "/", "u">>
RouteUX == <<"/", "u", "/", "x">>
RouteW == <<"/", "w">>

Routes == { RouteApiV1U, RouteV2U, RouteUX, RouteW }

BodyOf(route) ==
    CASE route = RouteApiV1U -> "A"
      [] route = RouteV2U -> "B"
      [] route = RouteUX -> "C"
      [] OTHER -> "D"

\* the values a raw route may have: three method maps and a non-object
DataKinds == 1..4

RouteData(route, kind) ==
    LET b == BodyOf(route)
    IN  CASE kind = 1 -> ObjData(OneEntry(Get, b))
          [] kind = 2 -> ObjData(MapInsert(OneEntry(Get, b), Post, b))
          [] kind = 3 -> ObjData(MapInsert(OneEntry(GetUpper, b), Get, b))
          [] OTHER -> ScalarData("s")

Entry(route, data) == [route |-> route, data |-> data]

DistinctRoutes(n) == { q \in [1..n -> Routes] : \A i, j \in 1..n : i # j => q[i] # q[j] }

\* the "paths" objects: at most MaxRoutes distinct routes in any order
PathsEntries ==
    UNION { { [i \in 1..n |-> Entry(q[i], RouteData(q[i], k[i]))] :
                  q \in DistinctRoutes(n), k \in [1..n -> DataKinds] }
            : n \in 0..MaxRoutes }

TopMembers == { OneEntry(OpenapiKey, "3.0.0"),
                MapInsert(OneEntry(OpenapiKey, "3.0.0"), InfoKey, "T") }

Document(top, t, entries) == [top |-> top, paths_t |-> t, entries |-> entries]

\* Scenario A of the specification
ScenarioA ==
    Document(OneEntry(OpenapiKey, "3.0.0"), "obj",
        << Entry(<<"/","a","p","i","/","v","1","/","u","s","e","r","s">>,
                 ObjData(MapInsert(OneEntry(Get, "A"), Post, "A"))),
           Entry(<<"/","v","2","/","u","s","e","r","s">>,
                 ObjData(MapInsert(OneEntry(Get, "B"), Delete, "B"))),
           Entry(<<"/","u","s","e","r","s","/","{","i","d","}">>,
                 ObjData(OneEntry(Get, "C"))) >>)

Documents ==
    { Document(top, "obj", e) : top \in TopMembers, e \in PathsEntries }
    \cup { Document(top, t, <<>>) : top \in TopMembers, t \in {"absent", "scalar"} }
    \cup { ScenarioA }

(***************************************************************************)
(* State machines                                                          *)
(***************************************************************************)
vars == <<pc, np_in, np_out, np_root, api_definition, path_groups, split_results,
          defs, merge_groups, verbs, merge_pos, merged_yaml, merge_results,
          final_definitions, repeated>>

normVars == <<np_in, np_out, np_root>>
splitVars == <<path_groups, split_results>>
mergeVars == <<merge_groups, verbs, merge_pos, merged_yaml, merge_results, final_definitions,
              repeated>>

NoDocument == Document(EmptyMap, "absent", <<>>)

IdleNorm == np_in = <<>> /\ np_out = <<>> /\ np_root = <<>>
IdleSplit == path_groups = EmptyMap /\ split_results = EmptyMap
IdleMerge ==
    /\ merge_groups = EmptyMap
    /\ verbs = <<>>
    /\ merge_pos = EmptyMap
    /\ merged_yaml = EmptyMap
    /\ merge_results = EmptyMap
    /\ final_definitions = <<>>
    /\ repeated = FALSE

(***************************************************************************)
(* normalize_path and get_root_path called on a raw string                 *)
(***************************************************************************)
InitNorm ==
    /\ pc = "norm_call"
    /\ np_in \in RawStrings
    /\ np_out = <<>>
    /\ np_root = <<>>
    /\ api_definition = NoDocument
    /\ defs = <<>>
    /\ IdleSplit
    /\ IdleMerge

CallNormalizePath ==
    /\ pc = "norm_call"
    /\ np_out' = NormalizePath(np_in)
    /\ pc' = "norm_done"
    /\ UNCHANGED <<np_in, np_root, api_definition, defs, splitVars, mergeVars>>

CallGetRootPath ==
    /\ pc = "norm_done"
    /\ np_root' = GetRootPath(np_out)
    /\ pc' = "root_done"
    /\ UNCHANGED <<np_in, np_out, api_definition, defs, splitVars, mergeVars>>

NextNorm == CallNormalizePath \/ CallGetRootPath

SpecNorm == InitNorm /\ [][NextNorm]_vars

(***************************************************************************)
(* process_api_definition: load, split, merge                              *)
(***************************************************************************)
Init ==
    /\ pc = "start"
    /\ api_definition \in Documents
    /\ defs = <<>>
    /\ IdleNorm
    /\ IdleSplit
    /\ IdleMerge

\* load_definition returned Ok(value)
LoadOk ==
    /\ pc = "start"
    /\ pc' = "split_call"
    /\ UNCHANGED <<api_definition, defs, normVars, splitVars, mergeVars>>

\* load_definition returned Err: the file or URL could not be read or parsed
LoadErr ==
    /\ pc = "start"
    /\ pc' = "failed"
    /\ UNCHANGED <<api_definition, defs, normVars, splitVars, mergeVars>>

\* split_definition_parallel 262-270: no "paths" object
SplitNoPaths ==
    /\ pc = "split_call"
    /\ ~HasPathsObject(api_definition)
    /\ defs' = <<>>
    /\ pc' = "merge_call"
    /\ UNCHANGED <<api_definition, normVars, splitVars, mergeVars>>

\* split_definition_parallel 272-281: group the raw routes
SplitGroup ==
    /\ pc = "split_call"
    /\ HasPathsObject(api_definition)
    /\ path_groups' = GroupPaths(api_definition.entries, EmptyMap)
    /\ split_results' = EmptyMap
    /\ pc' = "split_par"
    /\ UNCHANGED <<api_definition, defs, normVars, mergeVars>>

\* split_definition_parallel 284-289: a worker runs the closure for one group.
\* serde_yaml::to_string does not fail on a document of this shape, so the
\* closure returns Ok.
SplitWorker(np) ==
    /\ pc = "split_par"
    /\ np \in DOMAIN path_groups \ DOMAIN split_results
    /\ split_results' = MapInsert(split_results, np,
                                  ProcessPathGroup(api_definition, np, path_groups[np]))
    /\ UNCHANGED <<pc, api_definition, path_groups, defs, normVars, mergeVars>>

\* split_definition_parallel 289-300: collect in the map's iteration order
SplitCollect ==
    /\ pc = "split_par"
    /\ DOMAIN split_results = DOMAIN path_groups
    /\ \E order \in Orders(DOMAIN path_groups) :
          defs' = FlattenIn(split_results, order)
    /\ pc' = "merge_call"
    /\ UNCHANGED <<api_definition, normVars, splitVars, mergeVars>>

\* merge_definitions_parallel 417-429: partition, then group by base path
MergeStart ==
    /\ pc = "merge_call"
    /\ verbs' = VerbsOf(defs)
    /\ merge_groups' = GroupByRoot(PathsOf(defs), EmptyMap)
    /\ merge_pos' = [b \in DOMAIN merge_groups' |-> 0]
    /\ merged_yaml' = [b \in DOMAIN merge_groups' |-> None]
    /\ merge_results' = [b \in DOMAIN merge_groups' |-> Pending]
    /\ pc' = "merge_par"
    /\ UNCHANGED <<api_definition, defs, final_definitions, normVars, splitVars, repeated>>

\* the closure of group b has been handed to a worker and has not returned
Running(b) ==
    /\ pc = "merge_par"
    /\ b \in DOMAIN merge_groups
    /\ merge_results[b].st = "pending"

\* what the closure of group b does next: line 435, the loop of
\* merge_path_group, or the rendering after the loop
SingleReady(b) == Running(b) /\ Len(merge_groups[b]) = 1
StepReady(b) == Running(b) /\ Len(merge_groups[b]) > 1 /\ merge_pos[b] < Len(merge_groups[b])
FinishReady(b) == Running(b) /\ Len(merge_groups[b]) > 1 /\ merge_pos[b] = Len(merge_groups[b])

\* variant: a group of one fragment is parsed and rendered like the others
MergeSingleParsed(b) ==
    /\ SingleReady(b)
    /\ LET path_yaml == ParseYaml(merge_groups[b][1].yaml)
       IN  merge_results' = [merge_results EXCEPT ![b] =
                                IF path_yaml.ok
                                THEN Ok(APIPath(b, RenderYaml(path_yaml.val)))
                                ELSE Err]
    /\ UNCHANGED <<pc, api_definition, defs, merge_groups, verbs, merge_pos, merged_yaml,
                   final_definitions, normVars, splitVars, repeated>>

\* merge_definitions_parallel 435-441: a group of one fragment
MergeSingle(b) ==
    /\ SingleReady(b)
    /\ merge_results' = [merge_results EXCEPT ![b] =
                            Ok([merge_groups[b][1] EXCEPT !.path = b])]
    /\ UNCHANGED <<pc, api_definition, defs, merge_groups, verbs, merge_pos, merged_yaml,
                   final_definitions, normVars, splitVars, repeated>>

\* merge_path_group 468-489: one iteration of the loop
MergeGroupStep(b) ==
    /\ StepReady(b)
    /\ LET path_yaml == ParseYaml(NextToMerge(merge_groups[b], merge_pos[b]).yaml)
       IN  IF ~path_yaml.ok
           THEN /\ merge_results' = [merge_results EXCEPT ![b] = Err]
                /\ UNCHANGED <<merge_pos, merged_yaml>>
           ELSE /\ merged_yaml' = [merged_yaml EXCEPT ![b] =
                                     IF merged_yaml[b].some
                                     THEN Some(MergeRoutes(merged_yaml[b].val, path_yaml.val))
                                     ELSE Some(path_yaml.val)]
                /\ merge_pos' = [merge_pos EXCEPT ![b] = @ + 1]
                /\ UNCHANGED merge_results
    /\ UNCHANGED <<pc, api_definition, defs, merge_groups, verbs, final_definitions,
                   normVars, splitVars, repeated>>

\* merge_path_group 491-499: render the merged document
MergeGroupFinish(b) ==
    /\ FinishReady(b)
    /\ merge_results' = [merge_results EXCEPT ![b] =
                            Ok(APIPath(b, RenderYaml(merged_yaml[b].val)))]
    /\ UNCHANGED <<pc, api_definition, defs, merge_groups, verbs, merge_pos, merged_yaml,
                   final_definitions, normVars, splitVars, repeated>>

\* variant: the results of the closures that returned Ok are collected and
\* returned, those that returned Err are left out
MergeCollectSkippingFailed ==
    /\ pc = "merge_par"
    /\ \A b \in DOMAIN merge_groups : merge_results[b].st # "pending"
    /\ \E order \in Orders({ b \in DOMAIN merge_groups : merge_results[b].st = "ok" }) :
          final_definitions' = [i \in 1..Len(order) |-> merge_results[order[i]].def] \o verbs
    /\ pc' = "merged"
    /\ UNCHANGED <<api_definition, defs, merge_groups, verbs, merge_pos, merged_yaml,
                   merge_results, normVars, splitVars, repeated>>

\* merge_definitions_parallel 447-461: every closure returned Ok
MergeCollectOk ==
    /\ pc = "merge_par"
    /\ \A b \in DOMAIN merge_groups : merge_results[b].st = "ok"
    /\ \E order \in Orders(DOMAIN merge_groups) :
          final_definitions' = [i \in 1..Len(order) |-> merge_results[order[i]].def] \o verbs
    /\ pc' = "merged"
    /\ UNCHANGED <<api_definition, defs, merge_groups, verbs, merge_pos, merged_yaml,
                   merge_results, normVars, splitVars, repeated>>

\* merge_definitions_parallel 447-449: a closure returned Err, `?` returns it
MergeCollectErr ==
    /\ pc = "merge_par"
    /\ \E b \in DOMAIN merge_groups : merge_results[b].st = "err"
    /\ pc' = "failed"
    /\ UNCHANGED <<api_definition, defs, normVars, splitVars, mergeVars>>

\* variant: the result list is built from what split returned, before merge
ReturnBeforeMerge ==
    /\ pc = "merge_call"
    /\ pc' = "done"
    /\ UNCHANGED <<api_definition, defs, normVars, splitVars, mergeVars>>

\* process_api_definition 50-80: build and return the result list.  (The
\* fragments split emits always parse, so within process_api_definition the
\* closures of merge never return Err and MergeCollectErr cannot happen.)
ReturnResult ==
    /\ pc = "merged"
    /\ pc' = "done"
    /\ UNCHANGED <<api_definition, defs, normVars, splitVars, mergeVars>>

Next ==
    \/ LoadOk
    \/ LoadErr
    \/ SplitNoPaths
    \/ SplitGroup
    \/ \E np \in DOMAIN path_groups : SplitWorker(np)
    \/ SplitCollect
    \/ MergeStart
    \/ \E b \in DOMAIN merge_groups : MergeSingle(b)
    \/ \E b \in DOMAIN merge_groups : MergeGroupStep(b)
    \/ \E b \in DOMAIN merge_groups : MergeGroupFinish(b)
    \/ MergeCollectOk
    \/ ReturnResult

Spec == Init /\ [][Next]_vars

(***************************************************************************)
(* merge_definitions_parallel called on an arbitrary fragment list, as the *)
(* unit tests of processor.rs call it                                      *)
(***************************************************************************)
MaxDefs == 3         \* fragments in a generated input list

PathU == <<"/", "u">>
PathUX == <<"/", "u", "/", "x">>
PathW == <<"/", "w">>

\* "invalid: yaml: content: [" of test_error_handling_invalid_yaml_in_merge
InvalidYaml == << Line(0, <<"i", "n", "v", "a", "l", "i", "d">>, "bad", "") >>

\* "test: yaml" of test_merge_definitions_parallel_with_data
TestYaml == << Line(0, <<"t", "e", "s", "t">>, "str", "yaml") >>

PathDocument(top, route, methods) ==
    RenderYaml([top |-> top, paths |-> PathsObj(OneEntry(route, ObjData(methods)))])

TopA == OneEntry(OpenapiKey, "3.0.0")
TopB == MapInsert(OneEntry(OpenapiKey, "3.1.0"), InfoKey, "T")

InputDefs == {
    APIPath(PathU, PathDocument(TopA, PathU, OneEntry(Get, "A"))),
    APIPath(PathU, PathDocument(TopB, PathU, MapInsert(OneEntry(Get, "B"), Post, "B"))),
    APIPath(PathUX, PathDocument(TopA, PathUX, OneEntry(Get, "C"))),
    APIPath(PathW, PathDocument(TopA, PathW, OneEntry(Get, "D"))),
    APIPath(PathUX, InvalidYaml),
    APIPath(PathU, TestYaml),
    APIVerb(GetUpper, PathU, PathU, PathDocument(TopA, PathU, OneEntry(Get, "A"))),
    APIVerb(GetUpper, PathU, PathU, PathDocument(TopA, PathU, OneEntry(GetUpper, "B"))),
    APIVerb(ToUppercase(Post), PathUX, PathU, PathDocument(TopA, PathUX, OneEntry(Post, "C"))) }

\* a list of the shape split hands to merge: two path fragments under one
\* resource key and one operation fragment of each canonical path
SplitShapedList ==
    << APIPath(PathU, PathDocument(TopA, PathU, OneEntry(Get, "A"))),
       APIPath(PathUX, PathDocument(TopA, PathUX, OneEntry(Post, "C"))),
       APIVerb(GetUpper, PathU, PathU, PathDocument(TopA, PathU, OneEntry(Get, "A"))),
       APIVerb(ToUppercase(Post), PathUX, PathU, PathDocument(TopA, PathUX, OneEntry(Post, "C"))) >>

InputLists == UNION { [1..n -> InputDefs] : n \in 0..MaxDefs } \cup { SplitShapedList }

InitMerge ==
    /\ pc = "merge_call"
    /\ defs \in InputLists
    /\ api_definition = NoDocument
    /\ IdleNorm
    /\ IdleSplit
    /\ IdleMerge

NextMerge ==
    \/ MergeStart
    \/ \E b \in DOMAIN merge_groups : MergeSingle(b)
    \/ \E b \in DOMAIN merge_groups : MergeGroupStep(b)
    \/ \E b \in DOMAIN merge_groups : MergeGroupFinish(b)
    \/ MergeCollectOk
    \/ MergeCollectErr

SpecMerge == InitMerge /\ [][NextMerge]_vars

(***************************************************************************)
(* merge_path_group called on its own, as the unit tests call it: a base   *)
(* path and a list of path fragments of any length                         *)
(***************************************************************************)
PathInputDefs == { d \in InputDefs : d.kind = "path" }

GroupLists == UNION { [1..n -> PathInputDefs] : n \in 0..MaxDefs }

BasePaths == { PathU, PathW }

InitGroup ==
    /\ pc = "group_loop"
    /\ defs \in GroupLists
    /\ \E b \in BasePaths :
          /\ merge_groups = OneEntry(b, defs)
          /\ merge_pos = OneEntry(b, 0)
          /\ merged_yaml = OneEntry(b, None)
          /\ merge_results = OneEntry(b, Pending)
    /\ verbs = <<>>
    /\ final_definitions = <<>>
    /\ repeated = FALSE
    /\ api_definition = NoDocument
    /\ IdleNorm
    /\ IdleSplit

\* merge_path_group 468-489: one iteration of the loop; `?` returns the Err
GroupLoopStep(b) ==
    /\ pc = "group_loop"
    /\ merge_pos[b] < Len(merge_groups[b])
    /\ LET path_yaml == ParseYaml(NextToMerge(merge_groups[b], merge_pos[b]).yaml)
       IN  IF ~path_yaml.ok
           THEN /\ merge_results' = [merge_results EXCEPT ![b] = Err]
                /\ pc' = "group_failed"
                /\ UNCHANGED <<merge_pos, merged_yaml>>
           ELSE /\ merged_yaml' = [merged_yaml EXCEPT ![b] =
                                     IF merged_yaml[b].some
                                     THEN Some(MergeRoutes(merged_yaml[b].val, path_yaml.val))
                                     ELSE Some(path_yaml.val)]
                /\ merge_pos' = [merge_pos EXCEPT ![b] = @ + 1]
                /\ UNCHANGED <<pc, merge_results>>
    /\ UNCHANGED <<api_definition, defs, merge_groups, verbs, final_definitions,
                   normVars, splitVars, repeated>>

\* merge_path_group 491-499: render the merged document, the empty object
\* when the list was empty, and return Ok
GroupLoopFinish(b) ==
    /\ pc = "group_loop"
    /\ merge_pos[b] = Len(merge_groups[b])
    /\ merge_results' = [merge_results EXCEPT ![b] =
                            Ok(APIPath(b, RenderYaml(merged_yaml[b].val)))]
    /\ pc' = "group_done"
    /\ UNCHANGED <<api_definition, defs, merge_groups, verbs, merge_pos, merged_yaml,
                   final_definitions, normVars, splitVars, repeated>>

NextGroup ==
    \/ \E b \in DOMAIN merge_groups : GroupLoopStep(b)
    \/ \E b \in DOMAIN merge_groups : GroupLoopFinish(b)

SpecGroup == InitGroup /\ [][NextGroup]_vars

(***************************************************************************)
(* merge_definitions_parallel called a second time, on the list its first  *)
(* call returned                                                           *)
(***************************************************************************)
MergeAgain ==
    /\ pc = "merged"
    /\ ~repeated
    /\ defs' = final_definitions
    /\ merge_groups' = EmptyMap
    /\ verbs' = <<>>
    /\ merge_pos' = EmptyMap
    /\ merged_yaml' = EmptyMap
    /\ merge_results' = EmptyMap
    /\ final_definitions' = <<>>
    /\ repeated' = TRUE
    /\ pc' = "merge_call"
    /\ UNCHANGED <<api_definition, normVars, splitVars>>

NextAgain == NextMerge \/ MergeAgain

SpecAgain == InitMerge /\ [][NextAgain]_vars

(***************************************************************************)
(* The processor entered either way: through process_api_definition, or    *)
(* through merge_definitions_parallel with a fragment list of the caller's *)
(***************************************************************************)
InitBoth == Init \/ InitMerge

NextBoth == Next \/ MergeCollectErr

SpecBoth == InitBoth /\ [][NextBoth]_vars

(***************************************************************************)
(* Properties of normalize_path (checked under SpecNorm)                   *)
(***************************************************************************)
\* The segments of a string, read off the string itself: a segment is a
\* maximal run of characters other than '/'.
SegmentStarts(p) == { i \in 1..Len(p) : p[i] # Slash /\ (i = 1 \/ p[i - 1] = Slash) }

SegmentFrom(p, i) ==
    LET j == CHOOSE e \in i..Len(p) :
                 /\ \A h \in i..e : p[h] # Slash
                 /\ (e = Len(p) \/ p[e + 1] = Slash)
    IN  SubSeq(p, i, j)

SegmentsOf(p) ==
    LET st == SegmentStarts(p)
    IN  [n \in 1..Cardinality(st) |->
            SegmentFrom(p, CHOOSE i \in st : Cardinality({h \in st : h < i}) = n - 1)]

ApiWord == <<"a", "p", "i">>

\* "v" followed by one or more ASCII digits
VersionWord(seg) ==
    /\ seg # <<>>
    /\ Head(seg) = "v"
    /\ Tail(seg) # <<>>
    /\ Range(Tail(seg)) \subseteq Digits

DropLeadingApi(segs) == IF segs # <<>> /\ Head(segs) = ApiWord THEN Tail(segs) ELSE segs
DropLeadingVersion(segs) == IF segs # <<>> /\ VersionWord(Head(segs)) THEN Tail(segs) ELSE segs

\* every remaining segment behind a "/"; "/" alone when nothing remains
WithSlashes(segs) ==
    IF segs = <<>> THEN <<Slash>>
    ELSE Flatten([n \in 1..Len(segs) |-> <<Slash>> \o segs[n]])

Canonical(p) == WithSlashes(DropLeadingVersion(DropLeadingApi(SegmentsOf(p))))

Normalized == pc \in {"norm_done", "root_done"}

\* a canonical path that still begins with a segment normalize_path strips
BeginsWithPrefix(c) ==
    LET segs == SegmentsOf(c)
    IN  segs # <<>> /\ (Head(segs) = ApiWord \/ VersionWord(Head(segs)))

\* C9 as stated: normalize_path(normalize_path(p)) = normalize_path(p) for every p.
C9_IdempotentForEveryInput ==
    Normalized => NormalizePath(np_out) = np_out

\* C9 amended: normalize_path(normalize_path(p)) = normalize_path(p) for every p
\* whose normalized form does not itself begin with an "api" segment or a
\* v<digits> segment.
C9_IdempotentWithoutRemainingPrefix ==
    (Normalized /\ ~BeginsWithPrefix(np_out)) => NormalizePath(np_out) = np_out

C9_Witness ==
    /\ pc = "norm_done"
    /\ np_in = <<"/","a","p","i","/","v","1","/","u","s","e","r","s">>
    /\ np_out = <<"/","u","s","e","r","s">>
    /\ NormalizePath(np_out) = np_out

SlashesIn(s) == { i \in DOMAIN s : s[i] = Slash }

\* C12: normalize_path returns, for every input string, a string that starts
\* with "/", has no "//" and has no trailing "/" unless it is "/" itself.
C12_ResultIsWellFormed ==
    Normalized =>
        /\ np_out # <<>>
        /\ np_out[1] = Slash
        /\ \A i \in SlashesIn(np_out) : (i + 1) \notin SlashesIn(np_out)
        /\ (np_out[Len(np_out)] = Slash => np_out = <<Slash>>)

C12_Witness ==
    /\ pc = "norm_done"
    /\ np_in = <<"/","u","s","e","r","s","/">>
    /\ np_out = <<"/","u","s","e","r","s">>

\* C13: for the canonical path c returned by normalize_path, get_root_path(c)
\* is "/" followed by the first segment of c, or "/" when c is "/"; it holds
\* exactly one "/".
C13_RootIsFirstSegment ==
    pc = "root_done" =>
        LET segs == SegmentsOf(np_out)
        IN  /\ np_root = (IF segs = <<>> THEN <<Slash>> ELSE <<Slash>> \o Head(segs))
            /\ (np_out = <<Slash>> => np_root = <<Slash>>)
            /\ Cardinality(SlashesIn(np_root)) = 1

C13_Witness ==
    /\ pc = "root_done"
    /\ np_in = <<"/","a","p","i","/","v","1","/","u","s","e","r","s","/","1","2","3","/","p","o","s","t","s">>
    /\ np_out = <<"/","u","s","e","r","s","/","1","2","3","/","p","o","s","t","s">>
    /\ np_root = <<"/","u","s","e","r","s">>

ApiUpperV1Users == <<"/","A","P","I","/","V","1","/","u","s","e","r","s">>
ApiMixedV1Users == <<"/","A","p","i","/","v","1","/","u","s","e","r","s">>

SplitReturned == pc = "merge_call"

RawEntries == api_definition.entries

\* the raw routes, by position in the iteration order of "paths", that
\* normalize to c
RoutesOf(c) == { i \in DOMAIN RawEntries : NormalizePath(RawEntries[i].route) = c }

CanonicalPaths == { NormalizePath(RawEntries[i].route) : i \in DOMAIN RawEntries }

MethodsAt(i) == IF RawEntries[i].data.t = "obj" THEN DOMAIN RawEntries[i].data.m ELSE {}

MethodsOf(c) == UNION { MethodsAt(i) : i \in RoutesOf(c) }

\* the first raw route of the group that defines method m
FirstDefining(c, m) ==
    CHOOSE i \in RoutesOf(c) :
        /\ m \in MethodsAt(i)
        /\ \A h \in RoutesOf(c) : m \in MethodsAt(h) => i <= h

FirstSeenMap(c) == [m \in MethodsOf(c) |-> RawEntries[FirstDefining(c, m)].data.m[m]]

\* the value a fragment's text holds under "paths" / under its own route
PathsIn(d) == ParseYaml(d.yaml).val.paths
BodyIn(d) == PathsIn(d).r[d.path]

PathDefsAt(list, c) == { i \in DOMAIN list : list[i].kind = "path" /\ list[i].path = c }
VerbDefsAt(list, c) == { i \in DOMAIN list : list[i].kind = "verb" /\ list[i].path = c }

\* C1: for a canonical path shared by several raw routes the merged method map
\* is the union of the routes' method maps, and a method defined by more than
\* one route keeps the body of the first route in the iteration order of "paths".
C1_GroupMapIsFirstSeenUnion ==
    SplitReturned =>
        \A c \in CanonicalPaths :
            Cardinality(RoutesOf(c)) > 1 =>
                \A i \in PathDefsAt(defs, c) :
                    /\ PathsIn(defs[i]).t = "obj"
                    /\ DOMAIN PathsIn(defs[i]).r = {c}
                    /\ BodyIn(defs[i]) = ObjData(FirstSeenMap(c))

C1_Witness ==
    /\ pc = "merge_call"
    /\ Len(RawEntries) = 2
    /\ RawEntries[1].route = RouteApiV1U
    /\ RawEntries[2].route = RouteV2U
    /\ \E i \in DOMAIN defs :
          /\ defs[i].kind = "path"
          /\ BodyIn(defs[i]) = ObjData(MapInsert(OneEntry(Get, "A"), Post, "B"))

\* the method key under which an operation fragment's text holds its body
MethodKeysIn(d) == IF BodyIn(d).t = "obj" THEN DOMAIN BodyIn(d).m ELSE {}

RECURSIVE SumOver(_, _)
SumOver(S, f) ==
    IF S = {} THEN 0
    ELSE LET x == CHOOSE y \in S : TRUE IN f[x] + SumOver(S \ {x}, f)

\* C2: split emits, per canonical path, exactly one path fragment and exactly
\* one operation fragment per method key of the group's merged map, and nothing
\* else: (number of groups) + (sum of merged method counts) fragments.
C2_OnePathAndOneOperationPerMethod ==
    SplitReturned =>
        /\ \A c \in CanonicalPaths :
              /\ Cardinality(PathDefsAt(defs, c)) = 1
              /\ \A m \in MethodsOf(c) :
                    Cardinality({ i \in VerbDefsAt(defs, c) : MethodKeysIn(defs[i]) = {m} }) = 1
        /\ Len(defs) = Cardinality(CanonicalPaths)
                       + SumOver(CanonicalPaths, [c \in CanonicalPaths |-> Cardinality(MethodsOf(c))])

C2_Witness ==
    /\ pc = "merge_call"
    /\ Cardinality(CanonicalPaths) = 2
    /\ Len(defs) = 6

\* C3 as stated: no two operation fragments of split's output carry the same
\* (canonical path, uppercased method) pair.
C3_NoDuplicateOperationKeys ==
    SplitReturned =>
        \A i, j \in DOMAIN defs :
            (i # j /\ defs[i].kind = "verb" /\ defs[j].kind = "verb")
                => ~(defs[i].path = defs[j].path /\ defs[i].verb = defs[j].verb)

\* what split must return for a document, read off the document alone
GroupData(c) ==
    IF Cardinality(RoutesOf(c)) = 1
    THEN RawEntries[CHOOSE i \in RoutesOf(c) : TRUE].data
    ELSE ObjData(FirstSeenMap(c))

ExpectedPathDef(c) ==
    APIPath(c, RenderYaml([top |-> api_definition.top,
                           paths |-> PathsObj(OneEntry(c, GroupData(c)))]))

ExpectedVerbDef(c, m) ==
    APIVerb(ToUppercase(m), c, GetRootPath(c),
            RenderYaml([top |-> api_definition.top,
                        paths |-> PathsObj(OneEntry(c, ObjData(OneEntry(m, FirstSeenMap(c)[m]))))]))

ExpectedDefs ==
    IF api_definition.paths_t # "obj" THEN {}
    ELSE { ExpectedPathDef(c) : c \in CanonicalPaths }
         \cup UNION { { ExpectedVerbDef(c, m) : m \in MethodsOf(c) } : c \in CanonicalPaths }

\* C8: for a fixed document the fragments split returns, and the raw route that
\* wins each conflicting method, are the same whatever order the workers take
\* the groups in and whatever order the group map is iterated in.
C8_SplitResultIndependentOfSchedule ==
    SplitReturned =>
        /\ Range(defs) = ExpectedDefs
        /\ Len(defs) = Cardinality(ExpectedDefs)

C8_Witness ==
    /\ pc = "merge_call"
    /\ api_definition = ScenarioA
    /\ defs[1].path = <<"/","u","s","e","r","s","/","{","i","d","}">>
    /\ \E i \in DOMAIN defs :
          /\ defs[i].kind = "verb"
          /\ defs[i].verb = GetUpper
          /\ defs[i].path = <<"/","u","s","e","r","s">>
          /\ BodyIn(defs[i]) = ObjData(OneEntry(Get, "A"))

TopLines(text) == Children(text, 0)
TopKeys(text) == { text[j].k : j \in TopLines(text) }

\* C15: every text rendered by create_path_yaml or create_verb_yaml holds every
\* top-level key of the input document other than "paths" with its original
\* value, no other top-level key except one "paths" member, and that member
\* has exactly one route key.
C15_SkeletonPlusOneRoute ==
    SplitReturned =>
        \A i \in DOMAIN defs :
            LET text == defs[i].yaml
                v    == ParseYaml(text).val
            IN  /\ ParseYaml(text).ok
                /\ v.top = api_definition.top
                /\ TopKeys(text) = DOMAIN api_definition.top \cup {PathsKey}
                /\ Cardinality(TopLines(text)) = Cardinality(TopKeys(text))
                /\ v.paths.t = "obj"
                /\ Cardinality(DOMAIN v.paths.r) = 1

C15_Witness ==
    /\ pc = "merge_call"
    /\ InfoKey \in DOMAIN api_definition.top
    /\ Len(RawEntries) = 2
    /\ Cardinality(CanonicalPaths) = 2
    /\ \E i, j \in DOMAIN defs :
          /\ defs[i].kind = "path"
          /\ defs[j].kind = "verb"
          /\ ParseYaml(defs[i].yaml).val.top = api_definition.top
          /\ ParseYaml(defs[j].yaml).val.top[InfoKey] = "T"
          /\ DOMAIN PathsIn(defs[i]).r = {<<"/", "w">>}

\* the document has no raw route: "paths" is absent, not an object, or empty
NoRoutes == api_definition.paths_t # "obj" \/ api_definition.entries = <<>>

InSplit == pc \in {"split_call", "split_par"}

\* C16: when "paths" is absent, is not an object or is an empty object, split
\* returns Ok with an empty fragment list: no step of split ends in failure,
\* no worker has anything to do, and the list handed to merge is empty.
C16_NoRoutesGivesEmptyList ==
    /\ []((SplitReturned /\ NoRoutes) => defs = <<>>)
    /\ []((pc = "split_par" /\ NoRoutes) => path_groups = EmptyMap)
    /\ [][(InSplit /\ NoRoutes) => pc' \in {"split_par", "merge_call"}]_vars

C16_Witness ==
    /\ pc = "merge_call"
    /\ api_definition.paths_t = "obj"
    /\ api_definition.entries = <<>>
    /\ defs = <<>>

\* the raw routes whose value is not an object
NonObjectRoutes == { i \in DOMAIN RawEntries : RawEntries[i].data.t # "obj" }

\* the methods the object-valued routes of group c define
ObjectMethodsOf(c) ==
    UNION { DOMAIN RawEntries[i].data.m : i \in RoutesOf(c) \ NonObjectRoutes }

\* C17: a raw route whose value is not an object never makes split fail and
\* contributes no operation fragment: its group has one path fragment and
\* exactly the operation fragments of the group's object-valued routes, none
\* when the route is alone in its group.
C17_NonObjectRouteGivesNoOperation ==
    /\ [](SplitReturned =>
            \A c \in CanonicalPaths :
                RoutesOf(c) \cap NonObjectRoutes # {} =>
                    /\ Cardinality(PathDefsAt(defs, c)) = 1
                    /\ { defs[i] : i \in VerbDefsAt(defs, c) }
                           = { ExpectedVerbDef(c, m) : m \in ObjectMethodsOf(c) }
                    /\ Cardinality(VerbDefsAt(defs, c)) = Cardinality(ObjectMethodsOf(c))
                    /\ (RoutesOf(c) \subseteq NonObjectRoutes => VerbDefsAt(defs, c) = {}))
    /\ [][(InSplit /\ NonObjectRoutes # {}) => pc' \in {"split_par", "merge_call"}]_vars

C17_Witness ==
    /\ pc = "merge_call"
    /\ RawEntries = << Entry(RouteApiV1U, ScalarData("s")),
                       Entry(RouteV2U, ObjData(OneEntry(Get, "B"))) >>
    /\ Len(defs) = 2
    /\ defs[2] = APIVerb(GetUpper, <<"/", "u">>, <<"/", "u">>, defs[2].yaml)
    /\ BodyIn(defs[2]) = ObjData(OneEntry(Get, "B"))

\* C18 as stated: the value every path fragment of split's output holds under
\* its single route key is an object (a map from methods to operations),
\* whatever the values of the raw routes are.
C18_PathBodyIsAnObject ==
    SplitReturned =>
        \A i \in DOMAIN defs :
            defs[i].kind = "path" =>
                /\ PathsIn(defs[i]).t = "obj"
                /\ DOMAIN PathsIn(defs[i]).r = {defs[i].path}
                /\ BodyIn(defs[i]).t = "obj"

(***************************************************************************)
(* Properties of merge_definitions_parallel (checked under SpecMerge)      *)
(***************************************************************************)
MergeReturned == pc = "merged"

InputPaths == PathsOf(defs)

ResourceKeys == { GetRootPath(InputPaths[i].path) : i \in DOMAIN InputPaths }

\* the input path fragments of resource key k, in input order
KeyDefs(k) == SelectSeq(InputPaths, LAMBDA d : GetRootPath(d.path) = k)

\* the output path fragments whose resource key is k
OutputPathsAt(k) ==
    { i \in DOMAIN final_definitions :
        /\ final_definitions[i].kind = "path"
        /\ GetRootPath(final_definitions[i].path) = k }

\* C4: the output holds exactly one path fragment per resource key of the input
\* path fragments, and fragments sharing a key are replaced by one fragment
\* whose path is the key.
C4_OnePathFragmentPerResourceKey ==
    MergeReturned =>
        /\ \A k \in ResourceKeys : Cardinality(OutputPathsAt(k)) = 1
        /\ Len(PathsOf(final_definitions)) = Cardinality(ResourceKeys)
        /\ \A k \in ResourceKeys :
              Len(KeyDefs(k)) > 1 => \A i \in OutputPathsAt(k) : final_definitions[i].path = k

C4_Witness ==
    /\ MergeReturned
    /\ Len(InputPaths) = 3
    /\ { InputPaths[i].path : i \in 1..3 } = {PathU, PathUX, PathW}
    /\ Len(final_definitions) = 2

\* the method map a path fragment's text holds under the fragment's own path
MethodMapIn(d) ==
    IF PathsIn(d).t = "obj" /\ d.path \in DOMAIN PathsIn(d).r /\ BodyIn(d).t = "obj"
    THEN BodyIn(d).m
    ELSE EmptyMap

\* first-seen-wins union, over a sequence of maps
FirstWith(maps, x) == CHOOSE i \in DOMAIN maps :
                          x \in DOMAIN maps[i] /\ \A h \in DOMAIN maps : x \in DOMAIN maps[h] => i <= h

FirstSeenUnion(maps) ==
    [x \in UNION { DOMAIN maps[i] : i \in DOMAIN maps } |-> maps[FirstWith(maps, x)][x]]

\* C5 as stated: the document body of the merged fragment is the union of the
\* fragments' method maps, first-seen-wins per method.
C5_BodyIsUnionOfMethodMaps ==
    MergeReturned =>
        \A k \in ResourceKeys :
            Len(KeyDefs(k)) > 1 =>
                \A i \in OutputPathsAt(k) :
                    LET out == final_definitions[i]
                        fs  == KeyDefs(k)
                    IN  /\ PathsIn(out).t = "obj"
                        /\ out.path \in DOMAIN PathsIn(out).r
                        /\ BodyIn(out) = ObjData(FirstSeenUnion([n \in DOMAIN fs |-> MethodMapIn(fs[n])]))

\* C5 amended: the "paths" of the merged fragment is the union of the
\* fragments' route maps, first-seen-wins per route key: a route keeps the
\* whole method map of the first fragment that carries it.  (When the first
\* fragment's document has no "paths" object, nothing is merged into it.)
C5_PathsIsUnionOfRouteMaps ==
    MergeReturned =>
        \A k \in ResourceKeys :
            Len(KeyDefs(k)) > 1 =>
                \A i \in OutputPathsAt(k) :
                    LET out == final_definitions[i]
                        fs  == KeyDefs(k)
                    IN  IF PathsIn(fs[1]).t = "obj"
                        THEN PathsIn(out) =
                                 PathsObj(FirstSeenUnion([n \in DOMAIN fs |-> PathsIn(fs[n]).r]))
                        ELSE PathsIn(out) = PathsIn(fs[1])

C5_Witness ==
    /\ MergeReturned
    /\ Len(defs) = 2
    /\ defs[1] = APIPath(PathU, PathDocument(TopA, PathU, OneEntry(Get, "A")))
    /\ defs[2] = APIPath(PathU, PathDocument(TopB, PathU, MapInsert(OneEntry(Get, "B"), Post, "B")))
    /\ BodyIn(final_definitions[1]) = ObjData(OneEntry(Get, "A"))

InputVerbs == VerbsOf(defs)

SameOperationKey(a, b) == a.path = b.path /\ a.verb = b.verb

\* C6 as stated: of the input operation fragments with one (path, method) key
\* the output holds exactly one, the last of them in the input.
C6_LaterOperationOverwritesEarlier ==
    MergeReturned =>
        \A i \in DOMAIN InputVerbs :
            LET same == { j \in DOMAIN InputVerbs : SameOperationKey(InputVerbs[j], InputVerbs[i]) }
                last == CHOOSE j \in same : \A h \in same : h <= j
                outs == { h \in DOMAIN final_definitions :
                            /\ final_definitions[h].kind = "verb"
                            /\ SameOperationKey(final_definitions[h], InputVerbs[i]) }
            IN  /\ Cardinality(outs) = 1
                /\ \A h \in outs : final_definitions[h] = InputVerbs[last]

\* A single-threaded merge that takes the fragments one at a time in input
\* order, keeping per resource key: the number of fragments seen, the first
\* fragment, the document merged so far, and whether a text failed to parse.
SeqEntry(n, first, doc, failed) == [n |-> n, first |-> first, doc |-> doc, failed |-> failed]

SeqCombine(a, b) ==
    IF a.paths.t = "obj" /\ b.paths.t = "obj"
    THEN [top |-> a.top, paths |-> PathsObj(a.paths.r @@ b.paths.r)]
    ELSE a

SeqTake(acc, d) ==
    LET k == GetRootPath(d.path)
        p == ParseYaml(d.yaml)
    IN  IF k \notin DOMAIN acc
        THEN (k :> SeqEntry(1, d, NoValue, FALSE)) @@ acc
        ELSE LET e == acc[k]
                 f == ParseYaml(e.first.yaml)
             IN  IF e.n = 1
                 THEN (k :> SeqEntry(2, e.first, SeqCombine(f.val, p.val), ~f.ok \/ ~p.ok)) @@ acc
                 ELSE (k :> SeqEntry(e.n + 1, e.first, SeqCombine(e.doc, p.val), e.failed \/ ~p.ok)) @@ acc

RECURSIVE SeqMerge(_, _)
SeqMerge(list, acc) ==
    IF list = <<>> THEN acc ELSE SeqMerge(Tail(list), SeqTake(acc, Head(list)))

SeqResult == SeqMerge(InputPaths, EmptyMap)

SeqFailed == \E k \in DOMAIN SeqResult : SeqResult[k].failed

SeqOutput ==
    { IF SeqResult[k].n = 1
      THEN [SeqResult[k].first EXCEPT !.path = k]
      ELSE APIPath(k, RenderYaml(SeqResult[k].doc)) : k \in DOMAIN SeqResult }

\* the parallel merge returns what the sequential merge returns
SameAsSequential ==
    /\ pc = "merged" =>
          /\ ~SeqFailed
          /\ Range(PathsOf(final_definitions)) = SeqOutput
          /\ Len(PathsOf(final_definitions)) = Cardinality(SeqOutput)
          /\ VerbsOf(final_definitions) = InputVerbs
    /\ pc = "failed" => SeqFailed

\* a group that has not returned can always take its next step, whatever the
\* other groups are doing
NeverWaits ==
    pc = "merge_par" =>
        \A b \in DOMAIN merge_groups :
            merge_results[b].st = "pending" => (SingleReady(b) \/ StepReady(b) \/ FinishReady(b))

Touched(b) ==
    \/ merge_pos'[b] # merge_pos[b]
    \/ merged_yaml'[b] # merged_yaml[b]
    \/ merge_results'[b] # merge_results[b]

\* a step of the parallel stage reads and writes the state of one key only
OneKeyPerStep ==
    (pc = "merge_par" /\ pc' = "merge_par") =>
        \A b, c \in DOMAIN merge_groups : (Touched(b) /\ Touched(c)) => b = c

\* C7: under every interleaving of the groups the merge returns the keys and
\* values of a single-threaded merge in input order; a step works on one
\* resource key only, and a key's work never waits for another key.
C7_ParallelMergeEqualsSequential ==
    /\ [](SameAsSequential /\ NeverWaits)
    /\ [][OneKeyPerStep]_vars

C7_Witness ==
    /\ pc = "merge_par"
    /\ PathU \in DOMAIN merge_groups
    /\ PathW \in DOMAIN merge_groups
    /\ Len(merge_groups[PathU]) = 2
    /\ merge_pos[PathU] = 1
    /\ merge_results[PathW].st = "ok"

\* the top-level members other than "paths" a fragment's text holds
TopIn(d) == ParseYaml(d.yaml).val.top

\* C19 as stated: when path fragments sharing a resource key are merged, the
\* merged document holds, for every top-level key carried by any of the
\* fragments' documents, the value of the first fragment that carries the key.
C19_TopLevelKeysAreFirstSeenUnion ==
    MergeReturned =>
        \A k \in ResourceKeys :
            Len(KeyDefs(k)) > 1 =>
                \A i \in OutputPathsAt(k) :
                    LET fs == KeyDefs(k)
                    IN  TopIn(final_definitions[i]) = FirstSeenUnion([n \in DOMAIN fs |-> TopIn(fs[n])])

\* the operation fragments of the input list, in input order
InputOperations == SelectSeq(defs, LAMBDA d : d.kind = "verb")

\* C20: merge leaves the operation fragments untouched: the output holds the
\* input's operation fragments, each with its verb, path, root_path and yaml,
\* in input order behind the path fragments, none added, dropped or combined;
\* operation fragments of distinct canonical paths stay apart also where the
\* path fragments of their resource key have become one.
C20_OperationFragmentsUntouched ==
    MergeReturned =>
        LET np == Len(final_definitions) - Len(InputOperations)
        IN  /\ np >= 0
            /\ \A i \in 1..np : final_definitions[i].kind = "path"
            /\ \A i \in DOMAIN InputOperations :
                  /\ final_definitions[np + i].kind = "verb"
                  /\ final_definitions[np + i].verb = InputOperations[i].verb
                  /\ final_definitions[np + i].path = InputOperations[i].path
                  /\ final_definitions[np + i].root_path = InputOperations[i].root_path
                  /\ final_definitions[np + i].yaml = InputOperations[i].yaml

C20_Witness ==
    /\ MergeReturned
    /\ defs = SplitShapedList
    /\ Len(final_definitions) = 3
    /\ final_definitions[1].kind = "path"
    /\ final_definitions[1].path = PathU
    /\ final_definitions[2] = defs[3]
    /\ final_definitions[3] = defs[4]
    /\ final_definitions[2].path # final_definitions[3].path

(***************************************************************************)
(* Properties of errors and of the order of the stages                     *)
(***************************************************************************)
\* two raw routes of group c define the same method
SplitConflictAt(c) ==
    \E i, j \in RoutesOf(c) : i < j /\ MethodsAt(i) \cap MethodsAt(j) # {}

\* the route keys a path fragment's text carries
RouteKeysIn(d) ==
    IF ParseYaml(d.yaml).ok /\ PathsIn(d).t = "obj" THEN DOMAIN PathsIn(d).r ELSE {}

\* every text merge has to parse does parse: the texts of the resource keys
\* with two or more path fragments
GroupTextsParse ==
    \A k \in ResourceKeys :
        Len(KeyDefs(k)) > 1 => \A n \in DOMAIN KeyDefs(k) : ParseYaml(KeyDefs(k)[n].yaml).ok

\* the first fragment of the sequence fs that carries route key r
FirstCarrying(fs, r) ==
    CHOOSE n \in DOMAIN fs :
        r \in RouteKeysIn(fs[n]) /\ \A h \in DOMAIN fs : r \in RouteKeysIn(fs[h]) => n <= h

\* C21: conflicts never surface as errors.  Split does not fail on a group in
\* which two raw routes define the same method, and keeps the first route's
\* body; merge fails only on a text that does not parse, never on a route key
\* carried by two fragments of one resource key, and keeps the first
\* fragment's value of that route.
C21_ConflictsKeepFirstAndSucceed ==
    /\ [][(InSplit /\ \E c \in CanonicalPaths : SplitConflictAt(c)) => pc' # "failed"]_vars
    /\ [](SplitReturned =>
            \A c \in CanonicalPaths :
                SplitConflictAt(c) =>
                    \A i \in PathDefsAt(defs, c) : BodyIn(defs[i]) = ObjData(FirstSeenMap(c)))
    /\ [][(pc = "merge_par" /\ GroupTextsParse) => pc' # "failed"]_vars
    /\ [](MergeReturned =>
            \A k \in ResourceKeys :
                LET fs == KeyDefs(k)
                IN  (Len(fs) > 1 /\ PathsIn(fs[1]).t = "obj") =>
                        \A i \in OutputPathsAt(k) :
                            \A r \in UNION { RouteKeysIn(fs[n]) : n \in DOMAIN fs } :
                                /\ r \in RouteKeysIn(final_definitions[i])
                                /\ PathsIn(final_definitions[i]).r[r]
                                       = PathsIn(fs[FirstCarrying(fs, r)]).r[r])

C21_Witness ==
    /\ MergeReturned
    /\ defs = << APIPath(PathU, PathDocument(TopB, PathU, MapInsert(OneEntry(Get, "B"), Post, "B"))),
                 APIPath(PathU, PathDocument(TopA, PathU, OneEntry(Get, "A"))) >>
    /\ Len(final_definitions) = 1
    /\ BodyIn(final_definitions[1]) = ObjData(MapInsert(OneEntry(Get, "B"), Post, "B"))

\* a closure of merge has returned Err
SomeGroupFailed == \E b \in DOMAIN merge_groups : merge_results[b].st = "err"

\* C22: failure is all-or-nothing.  Once the closure of one resource key has
\* returned Err, merge never returns a fragment list, and a failed call leaves
\* none; a list merge returns holds the result of every resource key, none of
\* which failed, and the list split returns holds every fragment of every
\* canonical-path group.
C22_FailureIsAllOrNothing ==
    /\ [][(pc = "merge_par" /\ SomeGroupFailed) => pc' \in {"merge_par", "failed"}]_vars
    /\ [](pc = "failed" => final_definitions = <<>>)
    /\ [](MergeReturned =>
            /\ GroupTextsParse
            /\ ~SomeGroupFailed
            /\ DOMAIN merge_groups = ResourceKeys
            /\ Range(PathsOf(final_definitions))
                   = { merge_results[b].def : b \in DOMAIN merge_groups }
            /\ Len(PathsOf(final_definitions)) = Cardinality(ResourceKeys))
    /\ []((SplitReturned /\ path_groups # EmptyMap) =>
            /\ DOMAIN split_results = DOMAIN path_groups
            /\ DOMAIN path_groups = CanonicalPaths
            /\ \A c \in DOMAIN split_results : Range(split_results[c]) \subseteq Range(defs)
            /\ Len(defs) = SumOver(DOMAIN split_results,
                                   [c \in DOMAIN split_results |-> Len(split_results[c])]))

C22_Witness ==
    /\ pc = "failed"
    /\ PathW \in DOMAIN merge_groups
    /\ PathU \in DOMAIN merge_groups
    /\ merge_results[PathW].st = "ok"
    /\ merge_results[PathU].st = "err"
    /\ final_definitions = <<>>

\* a text that is not YAML, read off the text itself
NotYaml(text) == \E i \in DOMAIN text : text[i].tag = "bad"

\* the list merge_path_group was called with
GroupInput == merge_groups[CHOOSE b \in DOMAIN merge_groups : TRUE]

GroupHasBadText == \E n \in DOMAIN GroupInput : NotYaml(GroupInput[n].yaml)

\* C23: merge_path_group returns Err, and no merged fragment, whenever the
\* text of a fragment of the group does not parse, whatever the fragment's
\* position and also when the group is that one fragment; it returns Ok only
\* when every text parses.
C23_GroupWithBadTextFails ==
    /\ [][(pc = "group_loop" /\ GroupHasBadText) => pc' \in {"group_loop", "group_failed"}]_vars
    /\ [](pc = "group_done" => ~GroupHasBadText)
    /\ [](pc = "group_failed" =>
            /\ GroupHasBadText
            /\ \A b \in DOMAIN merge_results : merge_results[b] = Err)
    /\ []((pc = "group_loop" /\ GroupHasBadText) =>
            \A b \in DOMAIN merge_groups : merge_pos[b] < Len(merge_groups[b]))

C23_Witness ==
    /\ pc = "group_failed"
    /\ GroupInput = << APIPath(PathUX, InvalidYaml) >>
    /\ \A b \in DOMAIN merge_results : merge_results[b].st = "err"

Users == <<"/", "u", "s", "e", "r", "s">>
UsersId == <<"/", "u", "s", "e", "r", "s", "/", "{", "i", "d", "}">>

\* the resource key of a canonical path, read off its segments
FirstSegmentKey(c) ==
    IF SegmentsOf(c) = <<>> THEN <<Slash>> ELSE <<Slash>> \o Head(SegmentsOf(c))

\* C24: Scenario A.  For "/api/v1/users": {get, post}, "/v2/users": {get,
\* delete}, "/users/{id}": {get} split makes exactly the groups "/users" with
\* get (the body of "/api/v1/users"), post and delete, and "/users/{id}" with
\* get; exactly four operation fragments; every fragment's resource key is
\* "/users".
C24_ScenarioA ==
    (SplitReturned /\ api_definition = ScenarioA) =>
        /\ DOMAIN path_groups = {Users, UsersId}
        /\ Cardinality(PathDefsAt(defs, Users)) = 1
        /\ Cardinality(PathDefsAt(defs, UsersId)) = 1
        /\ \A i \in PathDefsAt(defs, Users) :
              BodyIn(defs[i]) = ObjData(MapInsert(MapInsert(OneEntry(Get, "A"), Post, "A"), Delete, "B"))
        /\ \A i \in PathDefsAt(defs, UsersId) : BodyIn(defs[i]) = ObjData(OneEntry(Get, "C"))
        /\ Cardinality({ i \in DOMAIN defs : defs[i].kind = "verb" }) = 4
        /\ Len(defs) = 6
        /\ \A i \in DOMAIN defs :
              /\ FirstSegmentKey(defs[i].path) = Users
              /\ defs[i].kind = "verb" => defs[i].root_path = Users

C24_Witness ==
    /\ pc = "merge_call"
    /\ api_definition = ScenarioA
    /\ Len(defs) = 6
    /\ \E i \in DOMAIN defs :
          /\ defs[i] = APIVerb(<<"D", "E", "L", "E", "T", "E">>, Users, Users, defs[i].yaml)
          /\ BodyIn(defs[i]) = ObjData(OneEntry(Delete, "B"))
    /\ \E i \in DOMAIN defs :
          /\ defs[i].kind = "verb"
          /\ defs[i].path = UsersId
          /\ defs[i].root_path = Users

\* the uppercased form of the method keys that occur in the documents
UppercasedMethod(m) ==
    CASE m = Get -> <<"G", "E", "T">>
      [] m = GetUpper -> <<"G", "E", "T">>
      [] m = Post -> <<"P", "O", "S", "T">>
      [] m = Delete -> <<"D", "E", "L", "E", "T", "E">>
      [] OTHER -> m

\* the canonical paths of the raw routes, by the documented algorithm
CanonicalOfRoutes == { Canonical(RawEntries[j].route) : j \in DOMAIN RawEntries }

\* C25: every operation fragment of split's output has verb = the uppercased
\* method key of its text, path = the normalized path of raw routes of the
\* document, and root_path = the resource key of path; every path fragment's
\* path is a normalized path too, and every normalized path has its fragment.
C25_FragmentFieldsAreNormalized ==
    SplitReturned =>
        /\ \A i \in DOMAIN defs :
              LET d == defs[i]
              IN  /\ d.path \in CanonicalOfRoutes
                  /\ DOMAIN PathsIn(d).r = {d.path}
                  /\ d.kind = "verb" =>
                        /\ \E m \in MethodKeysIn(d) : d.verb = UppercasedMethod(m)
                        /\ d.root_path = FirstSegmentKey(d.path)
        /\ \A c \in CanonicalOfRoutes : PathDefsAt(defs, c) # {}

C25_Witness ==
    /\ pc = "merge_call"
    /\ { RawEntries[j].route : j \in DOMAIN RawEntries } = {RouteApiV1U, RouteUX}
    /\ \E i \in DOMAIN defs :
          /\ defs[i].kind = "path"
          /\ defs[i].path = PathU
          /\ BodyIn(defs[i]) = ObjData(OneEntry(Get, "A"))
    /\ \E i \in DOMAIN defs :
          /\ defs[i].kind = "verb"
          /\ defs[i].verb = <<"G", "E", "T">>
          /\ defs[i].path = PathUX
          /\ defs[i].root_path = PathU
          /\ MethodKeysIn(defs[i]) = {Get}

\* "paths" is missing or is an empty object
PathsMissingOrEmpty ==
    \/ api_definition.paths_t = "absent"
    \/ api_definition.paths_t = "obj" /\ api_definition.entries = <<>>

\* C27 as stated: when "paths" is missing or is an empty object, split returns
\* before the parallel iteration over the groups is started: the parallel
\* step is never entered for such a document.
C27_NoParallelStepWithoutRoutes ==
    PathsMissingOrEmpty => pc # "split_par"

\* the stage process_api_definition is in: 1 load, 2 split, 3 merge, 4 the
\* result list, 5 the result returned; 0 after an error was returned
StageOf(p) ==
    CASE p = "start" -> 1
      [] p \in {"split_call", "split_par"} -> 2
      [] p \in {"merge_call", "merge_par"} -> 3
      [] p = "merged" -> 4
      [] p = "done" -> 5
      [] OTHER -> 0

\* C28: process_api_definition runs load, split and merge once each, in this
\* order: a step stays in its stage, moves to the next one, or returns an
\* error; after an error nothing runs, no stage is entered again and no
\* result list exists; the result list is built only after merge returned Ok,
\* with split and load before it.
C28_StagesRunOnceInOrder ==
    /\ [][/\ pc # "failed"
          /\ pc # "done"
          /\ StageOf(pc') \in {StageOf(pc), StageOf(pc) + 1, 0}
          /\ (pc \in {"split_call", "merge_call"} => pc' # pc)
          /\ (pc' = "split_call" => pc = "start")
          /\ (pc' = "merge_call" => StageOf(pc) = 2)
          /\ (pc' = "done" => pc = "merged")]_vars
    /\ [](pc = "failed" => (defs = <<>> /\ final_definitions = <<>> /\ IdleSplit /\ IdleMerge))
    /\ [](StageOf(pc) < 3 => IdleMerge)
    /\ [](StageOf(pc) < 2 => (IdleSplit /\ defs = <<>>))
    /\ [](StageOf(pc) \in {4, 5} =>
            /\ final_definitions = PathsOf(final_definitions) \o VerbsOf(defs)
            /\ \A b \in DOMAIN merge_results : merge_results[b].st = "ok")

C28_Witness ==
    /\ pc = "done"
    /\ api_definition = ScenarioA
    /\ Len(defs) = 6
    /\ Len(final_definitions) = 5
    /\ final_definitions[1].kind = "path"
    /\ final_definitions[1].path = Users

\* the resource keys with exactly one path fragment in the input
LoneKeys == { k \in ResourceKeys : Len(KeyDefs(k)) = 1 }

\* C29: a path fragment that is alone under its resource key comes back with
\* its path replaced by the key and its text untouched and unparsed: the text
\* may be unparsable without the call failing, and the route key in the text
\* stays the fragment's former path.
C29_LoneFragmentIsOnlyRenamed ==
    /\ [](MergeReturned =>
            \A k \in LoneKeys :
                \A i \in OutputPathsAt(k) :
                    /\ final_definitions[i].path = k
                    /\ final_definitions[i].yaml = KeyDefs(k)[1].yaml
                    /\ final_definitions[i].kind = "path")
    /\ [](pc = "failed" =>
            \E k \in ResourceKeys \ LoneKeys :
                \E n \in DOMAIN KeyDefs(k) : NotYaml(KeyDefs(k)[n].yaml))
    /\ [](pc = "merge_par" =>
            \A k \in LoneKeys : merge_pos[k] = 0 /\ ~merged_yaml[k].some)

C29_Witness ==
    /\ MergeReturned
    /\ defs = << APIPath(PathUX, InvalidYaml),
                 APIVerb(ToUppercase(Post), PathUX, PathU, PathDocument(TopA, PathUX, OneEntry(Post, "C"))) >>
    /\ final_definitions[1] = APIPath(PathU, InvalidYaml)
    /\ final_definitions[2] = defs[2]

\* how often a fragment occurs in a list
CountIn(list, x) == Cardinality({ i \in DOMAIN list : list[i] = x })

SameMultiset(a, b) ==
    /\ Len(a) = Len(b)
    /\ \A x \in Range(a) \cup Range(b) : CountIn(a, x) = CountIn(b, x)

\* C30: merge applied to the list a successful call of merge returned yields
\* the same multiset of fragments: in the second call every path fragment's
\* path is its own resource key and the fragment is alone in its group, so
\* the call cannot fail and returns every fragment as it was.
C30_MergeOfMergedIsSame ==
    /\ []((repeated /\ MergeReturned) => SameMultiset(final_definitions, defs))
    /\ []((repeated /\ pc = "merge_par") =>
            \A b \in DOMAIN merge_groups :
                Len(merge_groups[b]) = 1 /\ merge_groups[b][1].path = b)
    /\ [](repeated => pc # "failed")

C30_Witness ==
    /\ repeated
    /\ MergeReturned
    /\ Len(defs) = 3
    /\ { defs[i].path : i \in DOMAIN PathsOf(defs) } = {PathU, PathW}
    /\ Len(merge_groups[PathU]) = 1
    /\ defs[3].kind = "verb"
    /\ SameMultiset(final_definitions, defs)

=============================================================================
